---- MODULE Spec2Model ----
(***************************************************************************)
(* GlowPath: deterministic scoring, classification reconciliation and the *)
(* alternatives ranking, together with the two request handlers of the UI  *)
(* (assess, findAlternatives) that drive them.                             *)
(*                                                                         *)
(* Modelled build: src/unnamed/part_000 (App, time-aware alternatives)     *)
(* with src/unnamed/part_002 (lib, backend proxy).  The schema-validating  *)
(* classifier of src/src/lib.ts is modelled next to it as outputSchemaParse.*)
(*                                                                         *)
(* Numbers: csi, lighting and vibe are integers; radiance is held in       *)
(* tenths (6.3 is 63); confidence is held in hundredths (0.55 is 55); a    *)
(* rationale is held as its length in characters.  An optional value is a  *)
(* sequence of length at most one: << >> is null/undefined/NaN.            *)
(***************************************************************************)
EXTENDS Integers, Sequences, FiniteSets, TLC

VARIABLES
    status,   \* useState("")   part_000:46
    err,      \* useState("")   part_000:47
    result,   \* useState<GlowPathResult | null>(null), << >> is null
    alts,     \* useState<PlaceCandidate[]>([])
    pc,       \* per request slot: the await the handler is suspended at
    loc,      \* per request slot: the handler's local variables
    started,  \* number of handler invocations so far
    call      \* last application of a library function (pure specification)

uiVars  == <<status, err, result, alts>>
appVars == <<status, err, result, alts, pc, loc, started>>
vars    == <<status, err, result, alts, pc, loc, started, call>>

----------------------------------------------------------------------------
(* Bounds *)

MaxRequests == 3     \* handler invocations in one behaviour
MaxCand     == 2     \* candidates in one discovery response
MaxRank     == 3     \* candidates in one list handed to the ranking
Margin      == 3     \* how far below 0 and above 100 the arguments of the
                     \*   scoring functions and the radiance (tenths) go
RadHi       == 160   \* largest radiance, in tenths

CsiLo  == 0 - Margin      \* csi / lighting handed to the scoring functions
CsiHi  == 100 + Margin
VibeLo == 0 - Margin      \* scores handed to riskLevelFromVibe
VibeHi == 100 + Margin
RadLo  == 0 - Margin      \* smallest radiance, in tenths

None    == << >>
Some(x) == <<x>>

Min(a, b) == IF a < b THEN a ELSE b
Max(a, b) == IF a > b THEN a ELSE b

----------------------------------------------------------------------------
(* Deterministic scoring, part_002:91-115 *)

\* lightingScoreFromRadiance with the buckets taken right-inclusive
lightingScoreRightInclusive(r) ==
    LET rad == Max(0, r) IN
    IF rad <= 5 THEN 15 ELSE IF rad <= 20 THEN 35 ELSE IF rad <= 100 THEN 65 ELSE 85

\* r in tenths: 0.5 is 5, 2.0 is 20, 10.0 is 100
lightingScoreFromRadiance(r) ==
    LET rad == Max(0, r) IN
    IF rad < 5 THEN 15 ELSE IF rad < 20 THEN 35 ELSE IF rad < 100 THEN 65 ELSE 85

\* The pairs (a, b) in 0..100 for which the IEEE-754 double evaluation of
\* 0.7 * a + 0.3 * b is the double just below k + 0.5 although the real
\* value is exactly k + 0.5 (e.g. 0.7 * 85 is 59.49999999999999).  Every
\* other pair evaluates to a double on the same side of k + 0.5 as the real
\* value, because real values are multiples of 0.1.
BelowHalf == {
    <<1, {36, 46, 96}>>,
    <<2, {57, 67, 77, 87, 97}>>,
    <<3, {18}>>,
    <<6, {1, 11, 31}>>,
    <<7, {2, 62, 72, 82}>>,
    <<12, {7, 17, 57, 67, 77}>>,
    <<14, {9}>>,
    <<17, {2, 12, 62}>>,
    <<19, {4}>>,
    <<23, {8, 18, 48}>>,
    <<24, {9, 19, 29, 39, 49}>>,
    <<28, {3, 13, 23}>>,
    <<29, {4, 14, 24, 34}>>,
    <<33, {8, 18}>>,
    <<34, {9, 19}>>,
    <<38, {3, 13}>>,
    <<39, {4, 14}>>,
    <<45, {0}>>,
    <<46, {1, 11, 21, 31, 41, 51}>>,
    <<48, {3, 13, 23, 33, 43, 53, 63, 73, 83, 93}>>,
    <<51, {6, 16, 26, 36, 46}>>,
    <<53, {8, 18, 28, 38, 48, 58, 68, 78, 88}>>,
    <<56, {1, 11, 21, 31, 41, 51}>>,
    <<58, {3, 13, 23, 33, 43, 53, 63, 73}>>,
    <<61, {6, 16, 26, 36, 46}>>,
    <<63, {8, 18, 28, 38, 48, 58}>>,
    <<66, {1, 11, 21, 31, 41, 51}>>,
    <<68, {3, 13, 23, 33, 43, 53}>>,
    <<71, {6, 16, 26, 36, 46}>>,
    <<73, {8, 18, 28, 38}>>,
    <<76, {1, 11, 21, 31}>>,
    <<78, {3, 13, 23}>>,
    <<81, {6, 16}>>,
    <<83, {8, 18}>>,
    <<85, {0, 10}>>,
    <<86, {1, 11}>>,
    <<88, {3}>>,
    <<92, {7, 17, 27, 37, 47, 57, 67, 77, 87, 97}>>,
    <<96, {1, 11, 21, 31, 41, 51, 61, 71, 81, 91}>>,
    <<97, {2, 12, 22, 32, 42, 52, 62, 72, 82, 92}>>
    }

IsBelowHalf(a, b) == \E row \in BelowHalf : row[1] = a /\ b \in row[2]

\* Math.round(0.7 * a + 0.3 * b) in real arithmetic (round half up)
RoundHalfUp7030(a, b) == (7 * a + 3 * b + 5) \div 10

\* Math.round(0.7 * a + 0.3 * b) as the double arithmetic of the build
\* computes it, for a, b in 0..100
MathRound7030(a, b) ==
    IF IsBelowHalf(a, b) THEN (7 * a + 3 * b) \div 10
                         ELSE (7 * a + 3 * b + 5) \div 10

clamp0100(x) == Max(0, Min(100, x))

\* vibeScore without the clamping of its inputs
vibeScoreUnclamped(crimeCsi, lightingScore) ==
    RoundHalfUp7030(100 - crimeCsi, lightingScore)

vibeScore(crimeCsi, lightingScore) ==
    LET csi   == clamp0100(crimeCsi)
        light == clamp0100(lightingScore)
    IN  MathRound7030(100 - csi, light)

socialWarmthProxy(crimeCsi, lightingScore) ==
    LET csi   == clamp0100(crimeCsi)
        light == clamp0100(lightingScore)
    IN  MathRound7030(light, 100 - csi)

\* riskLevelFromVibe with strict comparisons
riskLevelStrict(v) ==
    IF v > 65 THEN "SAFE" ELSE IF v > 40 THEN "CAUTION" ELSE "UNSAFE"

riskLevelFromVibe(v) ==
    IF v >= 65 THEN "SAFE" ELSE IF v >= 40 THEN "CAUTION" ELSE "UNSAFE"

RiskLevels      == {"SAFE", "CAUTION", "UNSAFE"}
Classifications == {"SAFE", "UNSAFE", "SOCIAL_BALANCED", "INFRA_MISMATCH", "UNCERTAIN"}

\* the ordering UNSAFE < CAUTION < SAFE
RiskRank(l) == IF l = "UNSAFE" THEN 0 ELSE IF l = "CAUTION" THEN 1 ELSE 2

----------------------------------------------------------------------------
(* Classification, part_002:120-144 and lib.ts:111-157 *)

\* A response body of the classification service: risk_level and
\* classification are arbitrary strings, confidence (hundredths) and
\* rationale (length) may be missing.
Thrown(msg)  == [ok |-> FALSE, message |-> msg]
Returned(v)  == [ok |-> TRUE, value |-> v]

\* part_002: the backend's body is forwarded field by field
geminiClassify(httpOk, out) ==
    IF ~httpOk THEN Thrown("Backend gemini/classify failed")
    ELSE Returned([risk_level     |-> out.risk_level,
                   classification |-> out.classification,
                   confidence     |-> IF out.confidence = None THEN 55
                                      ELSE out.confidence[1],
                   rationale      |-> Min(IF out.rationale = None THEN 0
                                          ELSE out.rationale[1], 240)])

\* lib.ts: outputSchema.parse(JSON.parse(resp.text))
outputSchemaParse(out) ==
    IF /\ out.risk_level \in RiskLevels
       /\ out.classification \in Classifications
       /\ out.confidence # None
       /\ out.confidence[1] >= 0 /\ out.confidence[1] <= 100
       /\ out.rationale # None
       /\ out.rationale[1] <= 240
    THEN Returned([risk_level     |-> out.risk_level,
                   classification |-> out.classification,
                   confidence     |-> out.confidence[1],
                   rationale      |-> out.rationale[1]])
    ELSE Thrown("ZodError")

----------------------------------------------------------------------------
(* Result assembly, part_002:146-164 and part_000:73-82 *)

\* assembleFinalResult that recomputes the risk level itself
assembleFinalResultRecomputing(params) ==
    [vibe_score        |-> params.vibe_score,
     risk_level        |-> riskLevelFromVibe(params.vibe_score),
     classification    |-> params.modelOut.classification,
     social_warmth     |-> params.social_warmth,
     lighting_score    |-> params.lighting_score,
     crime_baseline    |-> params.crime_baseline,
     confidence        |-> params.modelOut.confidence,
     safe_haven_nearby |-> FALSE,
     rationale         |-> params.modelOut.rationale]

\* an assembly that stores the lighting score as the social warmth and the
\* social warmth as the lighting score
assembleFinalResultSwapping(params) ==
    [vibe_score        |-> params.vibe_score,
     risk_level        |-> params.modelOut.risk_level,
     classification    |-> params.modelOut.classification,
     social_warmth     |-> params.lighting_score,
     lighting_score    |-> params.social_warmth,
     crime_baseline    |-> params.crime_baseline,
     confidence        |-> params.modelOut.confidence,
     safe_haven_nearby |-> FALSE,
     rationale         |-> params.modelOut.rationale]

\* part_002:146-164
assembleFinalResult(params) ==
    [vibe_score        |-> params.vibe_score,
     risk_level        |-> params.modelOut.risk_level,
     classification    |-> params.modelOut.classification,
     social_warmth     |-> params.social_warmth,
     lighting_score    |-> params.lighting_score,
     crime_baseline    |-> params.crime_baseline,
     confidence        |-> params.modelOut.confidence,
     safe_haven_nearby |-> FALSE,
     rationale         |-> params.modelOut.rationale]

\* assess without the override: the model's risk level is forwarded
fixedModelOutForwarding(modelOut, vibe) == modelOut

\* part_000:73-74  { ...modelOut, risk_level: expected }
fixedModelOut(modelOut, vibe) ==
    LET expected == riskLevelFromVibe(vibe) IN
    [modelOut EXCEPT !.risk_level = expected]

\* part_000:76-82  the record assess hands to setResult.  csi is an integer
\* here, so Math.round(csi) is csi.
assessResult(csi, lighting, vibe, warmth, modelOut) ==
    assembleFinalResult([vibe_score     |-> vibe,
                         lighting_score |-> lighting,
                         crime_baseline |-> csi,
                         social_warmth  |-> warmth,
                         modelOut       |-> fixedModelOut(modelOut, vibe)])

----------------------------------------------------------------------------
(* Alternatives ranking, part_002:63-70 and part_000:102-118 *)

SHORTLIST == 10   \* candidates.slice(0, 10)
TOP_N     == 5    \* kept.slice(0, 5)

slice(s, n) == SubSeq(s, 1, Min(n, Len(s)))

\* part_002:69  the three-valued open status of a discovered place
openAtTime(raw) ==
    IF raw = "true" THEN "true" ELSE IF raw = "false" THEN "false" ELSE "null"

nearbyCandidates(data) ==
    [i \in 1..Len(data) |->
        [name |-> data[i].name, open_at_time |-> openAtTime(data[i].open_at_time)]]

\* an iteration of the scoring loop that bands the csi instead of the vibe
scoredCandidateBandingCsi(c, csi, lighting) ==
    [name         |-> c.name,
     open_at_time |-> c.open_at_time,
     vibe_score   |-> vibeScore(csi, lighting),
     risk_level   |-> riskLevelFromVibe(csi)]

\* part_000:104-108  one iteration of the scoring loop
scoredCandidate(c, csi, lighting) ==
    LET vibe == vibeScore(csi, lighting) IN
    [name         |-> c.name,
     open_at_time |-> c.open_at_time,
     vibe_score   |-> vibe,
     risk_level   |-> riskLevelFromVibe(vibe)]

\* the filter keeping only the candidates known to be open
keptOpenOnly(scored) == SelectSeq(scored, LAMBDA p : p.open_at_time = "true")

\* part_000:110
kept(scored) == SelectSeq(scored, LAMBDA p : p.open_at_time # "false")

\* the comparator of part_001:115, which orders by vibe_score alone
compareVibeOnly(a, b) == b.vibe_score - a.vibe_score

\* part_000:111-116  the comparator handed to Array.prototype.sort
compare(a, b) ==
    LET ao == IF a.open_at_time = "true" THEN 1 ELSE 0
        bo == IF b.open_at_time = "true" THEN 1 ELSE 0
    IN  IF bo # ao THEN bo - ao ELSE b.vibe_score - a.vibe_score

\* insertion that places x before the elements it compares equal to
insertBeforeEqual(s, x) ==
    LET before == {i \in 1..Len(s) : compare(s[i], x) < 0}
        n      == Cardinality(before)
    IN  SubSeq(s, 1, n) \o <<x>> \o SubSeq(s, n + 1, Len(s))

\* x goes after every element of the sorted s that does not compare
\* greater than it
insert(s, x) ==
    LET before == {i \in 1..Len(s) : compare(s[i], x) <= 0}
        n      == Cardinality(before)
    IN  SubSeq(s, 1, n) \o <<x>> \o SubSeq(s, n + 1, Len(s))

RECURSIVE sort(_)
\* Array.prototype.sort: a stable sort (ECMAScript 2019) by compare
sort(s) ==
    IF s = << >> THEN << >>
    ELSE insert(sort(SubSeq(s, 1, Len(s) - 1)), s[Len(s)])

\* a ranking that publishes every survivor
rankAlternativesUntruncated(scored) == sort(kept(scored))

\* part_000:110-118  the list findAlternatives hands to setAlts
rankAlternatives(scored) == slice(sort(kept(scored)), TOP_N)

----------------------------------------------------------------------------
(* Collaborators, part_002:34-88 *)

\* placeTextSearch: 404 is null, any other failure status throws
placeTextSearch(httpStatus) ==
    IF httpStatus = 404 THEN Returned(None)
    ELSE IF httpStatus # 200 THEN Thrown("Backend place/text failed")
    ELSE Returned(Some("dest"))

\* fetchCrimeoMeterCsi: data is the csi of the body, None when it is missing
\* or not a finite number
fetchCrimeoMeterCsi(httpOk, data) ==
    IF ~httpOk THEN Thrown("Backend crime/csi failed")
    ELSE IF data = None THEN Thrown("Backend response missing csi")
    ELSE Returned(data[1])

----------------------------------------------------------------------------
(* Inputs of the application *)

Procs == {1, 2}                       \* handler invocations that may overlap

HttpStatuses  == {200, 404, 500}
AppRadiance   == {None, Some(150)}    \* "abc" and "15"
AppCsi        == {None, Some(20), Some(90), Some(105)}

AppResponses ==
    { [risk_level |-> "SAFE",   classification |-> "SAFE",
       confidence |-> Some(90), rationale |-> Some(100)],
      [risk_level |-> "UNSAFE", classification |-> "UNCERTAIN",
       confidence |-> None,     rationale |-> Some(241)],
      [risk_level |-> "MAYBE",  classification |-> "BOGUS",
       confidence |-> Some(150), rationale |-> None] }

RECURSIVE SeqsUpTo(_, _)
\* the sequences over S of length at most n
SeqsUpTo(S, n) ==
    IF n = 0 THEN {<< >>}
    ELSE LET shorter == SeqsUpTo(S, n - 1) IN
         shorter \cup {Append(s, x) : s \in shorter, x \in S}

\* the crime-baseline service answers for the place named i with this csi
\* (50, 80, 20, 50, ...), or with a body that has none
PlaceCsi(i)   == 20 + 30 * (i % 3)
AppCandCsi(i) == {None, Some(PlaceCsi(i))}

\* a discovery response: place i of the body is named i
Discovery(opens) ==
    [i \in 1..Len(opens) |-> [name |-> i, open_at_time |-> opens[i]]]

MAX_RESULTS == 12   \* part_002:57  max_results of the discovery request

\* the open status the discovery service reports for the i-th place of a
\* body, in a neighbourhood whose statuses repeat from offset r
OpenPattern     == <<"false", "absent", "true", "true">>
PlaceOpen(i, r) == OpenPattern[((i + r - 1) % 4) + 1]

\* short bodies at every offset, and one full body of MAX_RESULTS places
AppDiscoveries ==
    {Discovery([i \in 1..n |-> PlaceOpen(i, r)]) : n \in 0..MaxCand, r \in 0..3}
        \cup {Discovery([i \in 1..MAX_RESULTS |-> PlaceOpen(i, 0)])}

NoLocals ==
    [kind |-> "none", seq |-> 0, radianceOverride |-> None, csi |-> 0, lighting |-> 0,
     vibe |-> 0, warmth |-> 0, shortlist |-> << >>, scored |-> << >>]

----------------------------------------------------------------------------
(* The request handlers, part_000:54-123 *)

Init ==
    /\ status = ""
    /\ err = ""
    /\ result = None
    /\ alts = << >>
    /\ pc = [p \in Procs |-> "idle"]
    /\ loc = [p \in Procs |-> NoLocals]
    /\ started = 0
    /\ call = [fn |-> "none"]

\* the handler has returned: its slot keeps which invocation it ran
Finished(l) == [NoLocals EXCEPT !.kind = l.kind, !.seq = l.seq]

\* a catch block that reports the error and leaves the handler at the await
\* that failed, to issue the call again
CatchRetrying(p, message) ==
    /\ status' = ""
    /\ err' = message
    /\ UNCHANGED <<pc, loc>>

\* a catch block that swallows the error
CatchSilent(p, message) ==
    /\ status' = ""
    /\ err' = ""
    /\ pc' = [pc EXCEPT ![p] = "idle"]
    /\ loc' = [loc EXCEPT ![p] = Finished(loc[p])]

\* part_000:85-87, 120-122  the catch block: setStatus(""); setErr(e.message)
Catch(p, message) ==
    /\ status' = ""
    /\ err' = message
    /\ pc' = [pc EXCEPT ![p] = "idle"]
    /\ loc' = [loc EXCEPT ![p] = Finished(loc[p])]

\* part_000:55-57  the click on "Assess safety", up to the first await
StartAssess(p) ==
    /\ pc[p] = "idle"
    /\ started < MaxRequests
    /\ \E r \in AppRadiance :
         loc' = [loc EXCEPT ![p] = [NoLocals EXCEPT !.kind = "assess", !.seq = started + 1,
                                                    !.radianceOverride = r]]
    /\ err' = ""
    /\ status' = "Finding place"
    /\ result' = None
    /\ alts' = << >>
    /\ pc' = [pc EXCEPT ![p] = "place"]
    /\ started' = started + 1
    /\ UNCHANGED call

\* an assess that issues the classification as soon as the place is known,
\* without awaiting the crime baseline
AssessPlaceSkippingCsi(p) ==
    /\ pc[p] = "place" /\ loc[p].kind = "assess"
    /\ status' = "Classifying safety vibe"
    /\ pc' = [pc EXCEPT ![p] = "classify"]
    /\ UNCHANGED <<err, loc, result, alts, started, call>>

\* part_000:57-61  placeTextSearch settles in assess
AssessPlace(p) ==
    /\ pc[p] = "place" /\ loc[p].kind = "assess"
    /\ \E st \in HttpStatuses :
         LET dest == placeTextSearch(st) IN
         IF ~dest.ok THEN Catch(p, dest.message)
         ELSE IF dest.value = None THEN Catch(p, "No place found for that name.")
         ELSE /\ status' = "Fetching crime baseline"
              /\ pc' = [pc EXCEPT ![p] = "csi"]
              /\ UNCHANGED <<err, loc>>
    /\ UNCHANGED <<result, alts, started, call>>

\* part_000:61-71  fetchCrimeoMeterCsi settles in assess
AssessCsi(p) ==
    /\ pc[p] = "csi"
    /\ \E httpOk \in BOOLEAN, data \in AppCsi :
         LET fetched  == fetchCrimeoMeterCsi(httpOk, data)
             radiance == loc[p].radianceOverride
         IN
         IF ~fetched.ok THEN Catch(p, fetched.message)
         ELSE IF radiance = None
              THEN Catch(p, "Night-light intensity must be a number.")
         ELSE LET csi      == fetched.value
                  lighting == lightingScoreFromRadiance(radiance[1])
                  vibe     == vibeScore(csi, lighting)
                  warmth   == socialWarmthProxy(csi, lighting)
              IN  /\ status' = "Classifying safety vibe"
                  /\ loc' = [loc EXCEPT ![p].csi = csi, ![p].lighting = lighting,
                                        ![p].vibe = vibe, ![p].warmth = warmth]
                  /\ pc' = [pc EXCEPT ![p] = "classify"]
                  /\ UNCHANGED err
    /\ UNCHANGED <<result, alts, started, call>>

\* part_000:71-84  geminiClassify settles
AssessClassify(p) ==
    /\ pc[p] = "classify"
    /\ \E httpOk \in BOOLEAN, out \in AppResponses :
         LET classified == geminiClassify(httpOk, out) IN
         IF ~classified.ok
         THEN Catch(p, classified.message) /\ UNCHANGED result
         ELSE /\ result' = Some(assessResult(loc[p].csi, loc[p].lighting,
                                             loc[p].vibe, loc[p].warmth,
                                             classified.value))
              /\ status' = "Done."
              /\ pc' = [pc EXCEPT ![p] = "idle"]
              /\ loc' = [loc EXCEPT ![p] = Finished(loc[p])]
              /\ UNCHANGED err
    /\ UNCHANGED <<alts, started, call>>

\* part_000:91-93  the click on "Find open safer alternatives"
StartFind(p) ==
    /\ pc[p] = "idle"
    /\ started < MaxRequests
    /\ \E r \in AppRadiance :
         loc' = [loc EXCEPT ![p] = [NoLocals EXCEPT !.kind = "find", !.seq = started + 1,
                                                    !.radianceOverride = r]]
    /\ err' = ""
    /\ status' = "Finding nearby alternatives"
    /\ alts' = << >>
    /\ pc' = [pc EXCEPT ![p] = "place"]
    /\ started' = started + 1
    /\ UNCHANGED <<result, call>>

\* part_000:93-96  placeTextSearch settles in findAlternatives
FindPlace(p) ==
    /\ pc[p] = "place" /\ loc[p].kind = "find"
    /\ \E st \in HttpStatuses :
         LET dest == placeTextSearch(st) IN
         IF ~dest.ok THEN Catch(p, dest.message)
         ELSE IF dest.value = None THEN Catch(p, "No place found for that name.")
         ELSE /\ pc' = [pc EXCEPT ![p] = "nearby"]
              /\ UNCHANGED <<status, err, loc>>
    /\ UNCHANGED <<result, alts, started, call>>

\* part_000:118-119  setAlts(kept.slice(0, 5)); setStatus("Done.")
Publish(p, scored) ==
    /\ alts' = rankAlternatives(scored)
    /\ status' = "Done."
    /\ pc' = [pc EXCEPT ![p] = "idle"]
    /\ loc' = [loc EXCEPT ![p] = Finished(loc[p])]
    /\ UNCHANGED err

\* part_000:96-105  nearbyCandidates settles
FindNearby(p) ==
    /\ pc[p] = "nearby"
    /\ \E httpOk \in BOOLEAN, data \in AppDiscoveries :
         LET radiance == loc[p].radianceOverride IN
         IF ~httpOk
         THEN Catch(p, "Backend place/nearby_open failed") /\ UNCHANGED alts
         ELSE IF radiance = None
         THEN Catch(p, "Night-light intensity must be a number.") /\ UNCHANGED alts
         ELSE LET candidates == nearbyCandidates(data)
                  lighting   == lightingScoreFromRadiance(radiance[1])
                  shortlist  == slice(candidates, SHORTLIST)
              IN  IF shortlist = << >>
                  THEN Publish(p, << >>)
                  ELSE /\ loc' = [loc EXCEPT ![p].lighting = lighting,
                                             ![p].shortlist = shortlist]
                       /\ pc' = [pc EXCEPT ![p] = "fetch"]
                       /\ UNCHANGED <<status, err, alts>>
    /\ UNCHANGED <<result, started, call>>

\* part_000:104-119  the fetchCrimeoMeterCsi of one candidate settles
FindFetch(p) ==
    /\ pc[p] = "fetch"
    /\ LET c == loc[p].shortlist[Len(loc[p].scored) + 1] IN
       \E httpOk \in BOOLEAN, data \in AppCandCsi(c.name) :
         LET fetched == fetchCrimeoMeterCsi(httpOk, data) IN
         IF ~fetched.ok
         THEN Catch(p, fetched.message) /\ UNCHANGED alts
         ELSE LET scored == Append(loc[p].scored,
                                   scoredCandidate(c, fetched.value, loc[p].lighting))
              IN  IF Len(scored) = Len(loc[p].shortlist)
                  THEN Publish(p, scored)
                  ELSE /\ loc' = [loc EXCEPT ![p].scored = scored]
                       /\ UNCHANGED <<status, err, alts, pc>>
    /\ UNCHANGED <<result, started, call>>

Next ==
    \E p \in Procs :
        \/ StartAssess(p)
        \/ AssessPlace(p)
        \/ AssessCsi(p)
        \/ AssessClassify(p)
        \/ StartFind(p)
        \/ FindPlace(p)
        \/ FindNearby(p)
        \/ FindFetch(p)

Spec == Init /\ [][Next]_vars

----------------------------------------------------------------------------
(* The library functions applied to drawn arguments *)

Responses ==
    [risk_level     : RiskLevels \cup {"MAYBE"},
     classification : {"SAFE", "UNCERTAIN", "BOGUS"},
     confidence     : {None, Some(-10), Some(0), Some(55), Some(100), Some(150)},
     rationale      : {None, Some(0), Some(240), Some(241)}]

ModelOuts ==
    [risk_level     : RiskLevels,
     classification : {"SAFE", "UNCERTAIN"},
     confidence     : {0, 55, 100},
     rationale      : {0, 240}]

AssembleVibes == {0, 39, 40, 64, 65, 100}

\* a list of scored candidates: candidate i is named i
Scored(cs) ==
    [i \in 1..Len(cs) |->
        [name         |-> i,
         open_at_time |-> cs[i][1],
         vibe_score   |-> cs[i][2],
         risk_level   |-> riskLevelFromVibe(cs[i][2])]]

ScoredLists ==
    {Scored(cs) : cs \in SeqsUpTo({"true", "false", "null"} \X {50, 80, 90}, MaxRank)}

CallLightingScore ==
    /\ call.fn = "none"
    /\ \E r \in RadLo..RadHi :
        call' = [fn |-> "lightingScoreFromRadiance", r |-> r,
                 out |-> lightingScoreFromRadiance(r)]
    /\ UNCHANGED appVars

CallVibeScore ==
    /\ call.fn = "none"
    /\ \E c \in CsiLo..CsiHi, l \in CsiLo..CsiHi :
        call' = [fn |-> "vibeScore", csi |-> c, lighting |-> l,
                 out |-> vibeScore(c, l)]
    /\ UNCHANGED appVars

CallSocialWarmth ==
    /\ call.fn = "none"
    /\ \E c \in CsiLo..CsiHi, l \in CsiLo..CsiHi :
        call' = [fn |-> "socialWarmthProxy", csi |-> c, lighting |-> l,
                 out |-> socialWarmthProxy(c, l)]
    /\ UNCHANGED appVars

CallRiskLevel ==
    /\ call.fn = "none"
    /\ \E v \in VibeLo..VibeHi :
        call' = [fn |-> "riskLevelFromVibe", v |-> v, out |-> riskLevelFromVibe(v)]
    /\ UNCHANGED appVars

\* part_000:66-73  the scoring chain of assess
CallScoring ==
    /\ call.fn = "none"
    /\ \E c \in CsiLo..CsiHi, r \in {1, 63, 150} :
        LET lighting == lightingScoreFromRadiance(r)
            vibe     == vibeScore(c, lighting)
        IN  call' = [fn |-> "scoring", csi |-> c, radiance |-> r,
                     lighting |-> lighting, vibe |-> vibe,
                     warmth |-> socialWarmthProxy(c, lighting),
                     risk |-> riskLevelFromVibe(vibe)]
    /\ UNCHANGED appVars

CallGeminiClassify ==
    /\ call.fn = "none"
    /\ \E httpOk \in BOOLEAN, body \in Responses :
        call' = [fn |-> "geminiClassify", httpOk |-> httpOk, body |-> body,
                 out |-> geminiClassify(httpOk, body)]
    /\ UNCHANGED appVars

CallOutputSchemaParse ==
    /\ call.fn = "none"
    /\ \E body \in Responses :
        call' = [fn |-> "outputSchemaParse", body |-> body,
                 out |-> outputSchemaParse(body)]
    /\ UNCHANGED appVars

CallAssemble ==
    /\ call.fn = "none"
    /\ \E v \in AssembleVibes, m \in ModelOuts, c \in {20, 105} :
        LET params == [vibe_score |-> v, lighting_score |-> 85,
                       crime_baseline |-> c, social_warmth |-> 50, modelOut |-> m]
        IN  call' = [fn |-> "assembleFinalResult", params |-> params,
                     out |-> assembleFinalResult(params)]
    /\ UNCHANGED appVars

CallAssessResult ==
    /\ call.fn = "none"
    /\ \E v \in AssembleVibes, m \in ModelOuts :
        call' = [fn |-> "assessResult", vibe |-> v, modelOut |-> m,
                 out |-> assessResult(20, 85, v, 50, m)]
    /\ UNCHANGED appVars

CallRank ==
    /\ call.fn = "none"
    /\ \E scored \in ScoredLists :
        call' = [fn |-> "rankAlternatives", scored |-> scored,
                 kept |-> kept(scored), out |-> rankAlternatives(scored)]
    /\ UNCHANGED appVars

\* the caller takes the value; the next application starts afresh
CallReturn ==
    /\ call.fn # "none"
    /\ call' = [fn |-> "none"]
    /\ UNCHANGED appVars

NextPure ==
    \/ CallLightingScore
    \/ CallVibeScore
    \/ CallSocialWarmth
    \/ CallRiskLevel
    \/ CallScoring
    \/ CallGeminiClassify
    \/ CallOutputSchemaParse
    \/ CallAssemble
    \/ CallAssessResult
    \/ CallRank
    \/ CallReturn

SpecPure == Init /\ [][NextPure]_vars
----------------------------------------------------------------------------
(* Properties *)

Names(s) == [i \in 1..Len(s) |-> s[i].name]

\* C1 (as stated): every record assembleFinalResult returns has
\* risk_level = riskLevelFromVibe(vibe_score), whatever modelOut.risk_level
\* it was handed.
C1_AssembleRecomputesRisk ==
    call.fn = "assembleFinalResult" =>
        call.out.risk_level = riskLevelFromVibe(call.out.vibe_score)

\* C1 (amended): the record assess builds, assembleFinalResult applied to
\* the model output whose risk_level assess has replaced, has
\* risk_level = riskLevelFromVibe(vibe_score) for every vibe and every model
\* risk_level; assembleFinalResult itself copies modelOut.risk_level.
C1_AssessOverridesRisk ==
    /\ call.fn = "assessResult" =>
          call.out.risk_level = riskLevelFromVibe(call.out.vibe_score)
    /\ call.fn = "assembleFinalResult" =>
          call.out.risk_level = call.params.modelOut.risk_level

C1_Witness ==
    /\ call.fn = "assessResult"
    /\ call.modelOut.risk_level = "SAFE"
    /\ call.vibe = 39
    /\ call.out.risk_level = "UNSAFE"

\* C2: the displayed result, if any, and every displayed alternative carry
\* the risk level riskLevelFromVibe gives for their own vibe_score.
C2_DisplayedRiskIsDeterministic ==
    /\ result # None =>
          result[1].risk_level = riskLevelFromVibe(result[1].vibe_score)
    /\ \A i \in 1..Len(alts) :
          alts[i].risk_level = riskLevelFromVibe(alts[i].vibe_score)

\* a result built from the response whose risk_level was "MAYBE", shown
\* together with alternatives
C2_Witness ==
    /\ result # None
    /\ result[1].classification = "BOGUS"
    /\ Len(alts) > 0

\* C3: when a ranking request publishes, no published candidate is closed,
\* and the survivors are exactly the shortlisted candidates that are open or
\* of unknown hours: all of them are published when they are at most TOP_N.
C3_FilterDropsOnlyClosed ==
    [][\A p \in Procs :
         (pc[p] = "fetch" /\ pc'[p] = "idle" /\ status' = "Done.") =>
            LET sl        == loc[p].shortlist
                survivors == {sl[i].name : i \in {j \in 1..Len(sl) :
                                              sl[j].open_at_time \in {"true", "null"}}}
                published == {alts'[i].name : i \in 1..Len(alts')}
            IN  /\ \A i \in 1..Len(alts') : alts'[i].open_at_time # "false"
                /\ published \subseteq survivors
                /\ Len(alts') = Min(TOP_N, Cardinality(survivors))
                /\ Cardinality(published) = Len(alts')]_vars

\* candidate 2, of unknown hours, is published alone: candidate 1 was closed
C3_Witness ==
    /\ Len(alts) = 1
    /\ alts[1].name = 2
    /\ alts[1].open_at_time = "null"

\* C4: in the ranked list every open candidate precedes every candidate of
\* unknown hours, vibe_score is non-increasing among candidates of the same
\* open status, and candidates equal in both keys keep their input order.
C4_RankingOrder ==
    call.fn = "rankAlternatives" =>
        \A i \in 1..Len(call.out) : \A j \in 1..Len(call.out) :
            i < j =>
              LET a == call.out[i]
                  b == call.out[j]
              IN  /\ b.open_at_time = "true" => a.open_at_time = "true"
                  /\ a.open_at_time = b.open_at_time =>
                        a.vibe_score >= b.vibe_score
                  /\ (a.open_at_time = b.open_at_time /\ a.vibe_score = b.vibe_score)
                        => a.name < b.name

\* an open candidate of low score discovered last is ranked first, ahead of
\* two candidates of unknown hours that tie on the score
C4_Witness ==
    /\ call.fn = "rankAlternatives"
    /\ Len(call.out) = 3
    /\ Names(call.out) = <<3, 1, 2>>
    /\ call.out[1].open_at_time = "true" /\ call.out[1].vibe_score = 50
    /\ call.out[2].open_at_time = "null" /\ call.out[2].vibe_score = 80
    /\ call.out[3].open_at_time = "null" /\ call.out[3].vibe_score = 80

\* the candidates of C5: A (1) closed 90, B (2) open 50, C (3) unknown 80
C5_Candidates == Scored(<< <<"false", 90>>, <<"true", 50>>, <<"null", 80>> >>)

\* C5 (as stated): for [A(false, 90), B(true, 50), C(unknown, 80)] the
\* ranking returns [C, B].
C5_RankingGivesCB ==
    (call.fn = "rankAlternatives" /\ call.scored = C5_Candidates) =>
        Names(call.out) = <<3, 2>>

\* C5 (amended): for [A(false, 90), B(true, 50), C(unknown, 80)] the
\* ranking returns [B, C].
C5_RankingGivesBC ==
    (call.fn = "rankAlternatives" /\ call.scored = C5_Candidates) =>
        Names(call.out) = <<2, 3>>

C5_Witness ==
    /\ call.fn = "rankAlternatives"
    /\ call.scored = C5_Candidates
    /\ Len(call.out) = 2

SchemaValid(body) ==
    /\ body.risk_level \in RiskLevels
    /\ body.classification \in Classifications
    /\ body.confidence # None
    /\ body.confidence[1] >= 0 /\ body.confidence[1] <= 100
    /\ body.rationale # None
    /\ body.rationale[1] <= 240

\* C7: a response body that violates the output schema makes geminiClassify
\* throw.
C7_SchemaViolationThrows ==
    (call.fn = "geminiClassify" /\ call.httpOk /\ ~SchemaValid(call.body)) =>
        ~call.out.ok

\* C8: riskLevelFromVibe(v) is SAFE iff v >= 65, CAUTION iff 40 <= v < 65,
\* UNSAFE iff v < 40, so its rank under UNSAFE < CAUTION < SAFE is the number
\* of thresholds v has reached; 39, 40, 64, 65 give UNSAFE, CAUTION, CAUTION,
\* SAFE.
C8_RiskThresholds ==
    call.fn = "riskLevelFromVibe" =>
        /\ call.out = "SAFE" <=> call.v >= 65
        /\ call.out = "CAUTION" <=> (call.v >= 40 /\ call.v < 65)
        /\ call.out = "UNSAFE" <=> call.v < 40
        /\ RiskRank(call.out) = (IF call.v >= 40 THEN 1 ELSE 0)
                                + (IF call.v >= 65 THEN 1 ELSE 0)
        /\ call.v = 39 => call.out = "UNSAFE"
        /\ call.v = 40 => call.out = "CAUTION"
        /\ call.v = 64 => call.out = "CAUTION"
        /\ call.v = 65 => call.out = "SAFE"

C8_Witness ==
    /\ call.fn = "riskLevelFromVibe"
    /\ call.v = 65
    /\ call.out = "SAFE"

\* C9: vibeScore is round-half-up of 0.7 * (100 - c) + 0.3 * l and
\* socialWarmthProxy is round-half-up of 0.7 * l + 0.3 * (100 - c) for the
\* clamped c and l; csi 80 with radiance 0.1 scores lighting 15, vibe 19,
\* UNSAFE and csi 20 with radiance 15 scores lighting 85, vibe 82, SAFE.
C9_ScoresRoundHalfUp ==
    /\ call.fn = "vibeScore" =>
          call.out = RoundHalfUp7030(100 - clamp0100(call.csi), clamp0100(call.lighting))
    /\ call.fn = "socialWarmthProxy" =>
          call.out = RoundHalfUp7030(clamp0100(call.lighting), 100 - clamp0100(call.csi))
    /\ (call.fn = "scoring" /\ call.csi = 80 /\ call.radiance = 1) =>
          (call.lighting = 15 /\ call.vibe = 19 /\ call.risk = "UNSAFE")
    /\ (call.fn = "scoring" /\ call.csi = 20 /\ call.radiance = 150) =>
          (call.lighting = 85 /\ call.vibe = 82 /\ call.risk = "SAFE")

\* C10: vibeScore and socialWarmthProxy return an integer in [0, 100] for
\* every csi and lighting, those below 0 and above 100 included.
C10_ScoresInRange ==
    call.fn \in {"vibeScore", "socialWarmthProxy"} => call.out \in 0..100

C10_Witness ==
    /\ call.fn = "vibeScore"
    /\ call.csi < 0
    /\ call.lighting > 100
    /\ call.out = 100

\* C11: lightingScoreFromRadiance returns 15 on [0, 0.5), 35 on [0.5, 2.0),
\* 65 on [2.0, 10.0) and 85 from 10.0 on, so only 15, 35, 65, 85 and
\* non-decreasing in r (the value counts the boundaries r has reached), and
\* for r < 0 what it returns for r = 0.  Radiance is in tenths.
C11_LightingBuckets ==
    call.fn = "lightingScoreFromRadiance" =>
        LET r == call.r IN
        /\ call.out \in {15, 35, 65, 85}
        /\ (r >= 0 /\ r < 5) => call.out = 15
        /\ (r >= 5 /\ r < 20) => call.out = 35
        /\ (r >= 20 /\ r < 100) => call.out = 65
        /\ r >= 100 => call.out = 85
        /\ r < 0 => call.out = 15
        /\ call.out = 15 + 20 * (IF r >= 5 THEN 1 ELSE 0)
                         + 30 * (IF r >= 20 THEN 1 ELSE 0)
                         + 20 * (IF r >= 100 THEN 1 ELSE 0)

\* the boundary 0.5 itself falls in the second bucket
C11_Witness ==
    /\ call.fn = "lightingScoreFromRadiance"
    /\ call.r = 5
    /\ call.out = 35

\* C12: the crime_baseline of every displayed GlowPathResult lies in
\* [0, 100], whatever finite csi the crime-baseline collaborator returned.
C12_CrimeBaselineClamped ==
    result # None => result[1].crime_baseline \in 0..100

\* C13: every step of an assess request either moves it to its next await
\* (place, then csi, then classify; never back, so no call is repeated) leaving
\* error and result alone, or ends it with status "Done." and a result, or
\* ends it with an empty status, a non-empty error and no result written, the
\* handler holding no pending call; no step leaves every handler where it
\* was; a lone request that failed shows no result.
C13_AssessFailureAborts ==
    [][/\ \A p \in Procs :
            (loc[p].kind = "assess" /\ pc[p] # "idle" /\ pc'[p] # pc[p]) =>
                \/ /\ <<pc[p], pc'[p]>> \in {<<"place", "csi">>, <<"csi", "classify">>}
                   /\ err' = err
                   /\ result' = result
                \/ /\ pc[p] = "classify" /\ pc'[p] = "idle"
                   /\ status' = "Done."
                   /\ result' # None
                   /\ err' = err
                \/ /\ pc'[p] = "idle"
                   /\ status' = ""
                   /\ err' # ""
                   /\ result' = result
                   /\ loc'[p] = Finished(loc[p])
       /\ (pc' # pc \/ loc' # loc)
       /\ (started' = 1 /\ err' # "") => result' = None]_vars

\* a lone assess request whose classification call failed
C13_Witness ==
    /\ started = 1
    /\ err = "Backend gemini/classify failed"
    /\ status = ""
    /\ result = None
    /\ \A p \in Procs : pc[p] = "idle"

\* C14: within a request each external call is issued by the step in which
\* the previous one returns: the crime-baseline fetch by the return of the
\* place resolution, the classification by the return of the crime-baseline
\* fetch, the discovery by the return of the place resolution, the first
\* candidate fetch by the return of the discovery, and the fetch of candidate
\* i + 1 by the return of the fetch of candidate i, which that step scores.
C14_CallsAreSequential ==
    [][\A p \in Procs :
         /\ (pc'[p] = "place" /\ pc[p] # "place") => pc[p] = "idle"
         /\ (pc'[p] = "csi" /\ pc[p] # "csi") =>
               (pc[p] = "place" /\ loc[p].kind = "assess")
         /\ (pc'[p] = "classify" /\ pc[p] # "classify") => pc[p] = "csi"
         /\ (pc'[p] = "nearby" /\ pc[p] # "nearby") =>
               (pc[p] = "place" /\ loc[p].kind = "find")
         /\ (pc'[p] = "fetch" /\ pc[p] # "fetch") =>
               (pc[p] = "nearby" /\ loc'[p].scored = << >>)
         /\ (pc'[p] = "fetch" /\ pc[p] = "fetch" /\ loc'[p] # loc[p]) =>
               /\ Len(loc'[p].scored) = Len(loc[p].scored) + 1
               /\ SubSeq(loc'[p].scored, 1, Len(loc[p].scored)) = loc[p].scored
               /\ loc'[p].scored[Len(loc'[p].scored)].name
                     = loc[p].shortlist[Len(loc'[p].scored)].name
               /\ Len(loc'[p].scored) < Len(loc[p].shortlist)
         /\ pc[p] = "fetch" => Len(loc[p].scored) < Len(loc[p].shortlist)]_vars

\* the fetch of the third candidate is awaited, two candidates are scored,
\* while the other request awaits its classification
C14_Witness ==
    \E p \in Procs, q \in Procs :
        /\ pc[p] = "fetch"
        /\ Len(loc[p].scored) = 2
        /\ pc[q] = "classify"

\* the candidates a findAlternatives has scored once the pending fetch of its
\* last shortlisted candidate returns
AllScored(p) ==
    LET c == loc[p].shortlist[Len(loc[p].scored) + 1] IN
    Append(loc[p].scored, scoredCandidate(c, PlaceCsi(c.name), loc[p].lighting))

\* a ranks before b: open first, then the higher vibe, then the earlier
\* place of the discovery response
RanksBefore(a, b) ==
    \/ compare(a, b) < 0
    \/ compare(a, b) = 0 /\ a.name < b.name

\* C15: a findAlternatives scores at most the first 10 discovered candidates,
\* one fetch each, and publishes exactly the min(5, k) best-ranked of the k
\* scored candidates not known to be closed, in rank order; the published
\* list never has more than 5 candidates and all of them are shortlisted.
C15_ShortlistAndTopN ==
    [][/\ \A p \in Procs :
            (pc[p] = "fetch" /\ pc'[p] = "idle" /\ status' = "Done.") =>
              LET all  == AllScored(p)
                  surv == {i \in 1..Len(all) : all[i].open_at_time # "false"}
                  pub  == {i \in surv : \E j \in 1..Len(alts') : alts'[j] = all[i]}
              IN  /\ Len(all) = Len(loc[p].shortlist)
                  /\ Len(all) <= SHORTLIST
                  /\ Len(alts') = Min(TOP_N, Cardinality(surv))
                  /\ Cardinality(pub) = Len(alts')
                  /\ \A j \in 1..Len(alts') : \E i \in surv : alts'[j] = all[i]
                  /\ \A i \in 1..Len(alts'), j \in 1..Len(alts') :
                        i < j => RanksBefore(alts'[i], alts'[j])
                  /\ \A i \in pub, j \in surv \ pub : RanksBefore(all[i], all[j])
       /\ \A p \in Procs :
            (pc[p] = "nearby" /\ pc'[p] = "idle" /\ status' = "Done.") =>
              alts' = << >>
       /\ \A p \in Procs :
            (pc[p] = "nearby" /\ pc'[p] = "fetch") =>
              /\ Len(loc'[p].shortlist) \in 1..SHORTLIST
              /\ \A i \in 1..Len(loc'[p].shortlist) : loc'[p].shortlist[i].name = i
       /\ Len(alts') <= TOP_N
       /\ \A j \in 1..Len(alts') : alts'[j].name \in 1..SHORTLIST]_vars

\* of twelve discovered places ten were scored, seven survived and the five
\* best are displayed; the open places 11 and 12 were never scored
C15_Witness ==
    /\ Names(alts) = <<3, 4, 7, 8, 6>>
    /\ status = "Done."
    /\ \A p \in Procs : pc[p] = "idle"

\* C16: assembleFinalResult copies classification, confidence and rationale
\* from modelOut, copies vibe_score, lighting_score, crime_baseline and
\* social_warmth from its parameters, each unmodified, and sets
\* safe_haven_nearby to false.
C16_AssembleFrame ==
    call.fn = "assembleFinalResult" =>
        LET params == call.params
            out    == call.out
        IN  /\ out.classification = params.modelOut.classification
            /\ out.confidence = params.modelOut.confidence
            /\ out.rationale = params.modelOut.rationale
            /\ out.vibe_score = params.vibe_score
            /\ out.lighting_score = params.lighting_score
            /\ out.crime_baseline = params.crime_baseline
            /\ out.social_warmth = params.social_warmth
            /\ out.safe_haven_nearby = FALSE
            /\ DOMAIN out = {"vibe_score", "risk_level", "classification",
                             "social_warmth", "lighting_score", "crime_baseline",
                             "confidence", "safe_haven_nearby", "rationale"}

\* an out-of-range baseline and a full-length rationale are passed through
C16_Witness ==
    /\ call.fn = "assembleFinalResult"
    /\ call.params.crime_baseline = 105
    /\ call.params.modelOut.rationale = 240
    /\ call.params.modelOut.classification = "UNCERTAIN"
    /\ call.out.crime_baseline = 105
    /\ call.out.lighting_score = 85
    /\ call.out.social_warmth = 50
    /\ call.out.rationale = 240

\* C17: whenever the status is "Done." the error message is empty, also
\* when two requests overlap.
C17_DoneImpliesNoError == status = "Done." => err = ""

\* C18: an assess never displays its result after an assess that was started
\* later has completed: the step in which a request sets its result finds no
\* finished assess with a later start.
C18_LastStartedWins ==
    [][\A p \in Procs :
         (loc[p].kind = "assess" /\ pc[p] = "classify" /\ pc'[p] = "idle"
             /\ status' = "Done.") =>
           ~ \E q \in Procs \ {p} :
                 /\ loc[q].kind = "assess"
                 /\ pc[q] = "idle"
                 /\ loc[q].seq > loc[p].seq]_vars
====
